---- MODULE Spec2Model ----
(***************************************************************************)
(* Predator's Odyssey (src/main.py): the session loop play_game, the       *)
(* battle loop, the creature operations and the fusion table, as a state   *)
(* machine.  A Skill is represented by its name, the only field the code   *)
(* ever compares.  List positions are 1-based here and 0-based in Python.  *)
(***************************************************************************)
EXTENDS Integers, Sequences, FiniteSets, TLC

VARIABLES
    pc,             \* where the program waits: menu, battle_p, battle_e, won, absorb, fusion, done
    skills,         \* player.skills (names, in list order)
    health,         \* player.health
    max_health,     \* player.max_health
    layer,          \* player.layer
    e_skills,       \* enemy.skills
    e_health,       \* enemy.health
    e_max_health,   \* enemy.max_health
    table,          \* fusion_table._table: set of names -> name of the fused skill
    out,            \* the last thing the program reported, named by the code path
    battle_result,  \* the value battle() returned, while play_game uses it: "none", "True", "False"
    ending          \* how the session loop was left: "none", "surface", "gameover", "quit"

vars == <<pc, skills, health, max_health, layer, e_skills, e_health, e_max_health,
          table, out, battle_result, ending>>

playerVars == <<skills, health, max_health, layer>>
enemyVars == <<e_skills, e_health, e_max_health>>

----------------------------------------------------------------------------
(* Bounds of the model *)

\* random.sample draws from PoolSize entries of BASIC_SKILLS
PoolSize == 2
\* evolutions the evolution roll may grant in one session
MaxEvolve == 1
\* numeric selections typed at a prompt are "0" .. str(MaxInput)
MaxInput == 3

----------------------------------------------------------------------------
(* Program constants *)

BASIC_SKILLS ==
    <<"Fireball", "Thread Shot", "Acid Glob", "Water Jet",
      "Electric Current", "Stone Shard", "Wind Burst", "Shadow Sneak">>

StartMaxHealth == 15
StartLayer == -10
SurfaceLayer == -1
EvolveGain == 5
AscendHeal == 3
EnemyBaseHealth == 5
MinRoll == 1
MaxRoll == 3

None == "None"

----------------------------------------------------------------------------
(* Helpers on lists *)

Max(a, b) == IF a >= b THEN a ELSE b
Min(a, b) == IF a <= b THEN a ELSE b

Names(sk) == {sk[k] : k \in 1..Len(sk)}

\* del lst[k]; an index outside the list raises IndexError and deletes nothing
DelAt(sk, k) ==
    IF k \in 1..Len(sk)
    THEN SubSeq(sk, 1, k - 1) \o SubSeq(sk, k + 1, Len(sk))
    ELSE sk

\* random.sample(BASIC_SKILLS, n): n distinct entries, in any order
\* (the pool starts at "Thread Shot", so that it holds a pair with a fusion)
Pool == {BASIC_SKILLS[k] : k \in 2..Min(PoolSize + 1, Len(BASIC_SKILLS))}

sample(n) ==
    {s \in [1..n -> Pool] : \A x, y \in 1..n : x # y => s[x] # s[y]}

----------------------------------------------------------------------------
(* int(): the decimal strings the model types, and everything else raises  *)
(* ValueError                                                              *)

Digits == <<"0", "1", "2", "3", "4", "5", "6", "7", "8", "9">>

str(n) == Digits[n + 1]

IsInt(s) == \E n \in 0..(Len(Digits) - 1) : Digits[n + 1] = s

int(s) == CHOOSE n \in 0..(Len(Digits) - 1) : Digits[n + 1] = s

\* lines typed at a prompt: Enter alone, a non-number, and small numbers
PromptInputs == {"", "x"} \cup {str(n) : n \in 0..Min(MaxInput, Len(Digits) - 1)}

\* seq[idx] of Python for a 0-based idx; a negative idx counts from the end
PyIndex(seq, idx) == IF idx >= 0 THEN seq[idx + 1] ELSE seq[Len(seq) + idx + 1]

\* a range test that lets 0 through
InRangeFromZero(choice, n) == 0 <= choice /\ choice <= n

\* 1 <= choice <= len(...)
InRange(choice, n) == 1 <= choice /\ choice <= n

\* the line parses as a number and the number names an offered entry
ValidChoice(c, n) == IsInt(c) /\ InRange(int(c), n)

----------------------------------------------------------------------------
(* FusionTable *)

\* add(skill_a, skill_b, result) of _register_default_fusions
add(t, skill_a, skill_b, result) ==
    LET key == {skill_a, skill_b}
    IN  [k \in (DOMAIN t) \cup {key} |-> IF k = key THEN result ELSE t[k]]

EmptyTable == [k \in {} |-> None]

DefaultTable ==
    add(add(add(EmptyTable,
                "Thread Shot", "Acid Glob", "Acidic Web"),
            "Water Jet", "Electric Current", "Conductive Spray"),
        "Fireball", "Wind Burst", "Flaming Cyclone")

\* a lookup keyed by the ordered pair: only the catalogue order is found
CatalogueOrder ==
    BASIC_SKILLS \o <<"Acidic Web", "Conductive Spray", "Flaming Cyclone">>

Position(name) == CHOOSE k \in 1..Len(CatalogueOrder) : CatalogueOrder[k] = name

fuse_ordered(t, skill_a, skill_b) ==
    LET key == {skill_a, skill_b}
    IN  IF key \in DOMAIN t /\ Position(skill_a) <= Position(skill_b)
        THEN t[key] ELSE None

fuse(t, skill_a, skill_b) ==
    LET key == {skill_a, skill_b}
    IN  IF key \in DOMAIN t THEN t[key] ELSE None

----------------------------------------------------------------------------
(* Creature *)

\* an is_alive that counts a health of 0 as alive
is_alive_nonneg(h) == h >= 0

is_alive(h) == h > 0

\* a take_damage without the max(0, ...)
take_damage_unclamped(h, amount) == h - amount

take_damage(h, amount) == Max(0, h - amount)

\* a random factor that may be 0
RollsFromZero == 0..MaxRoll

\* len(self.skills) * random.randint(1, 3); r is the drawn factor
Rolls == MinRoll..MaxRoll

attack_power(sk, r) == Len(sk) * r

\* an absorb_skill without the membership test
absorb_skill_always(sk, skill) == Append(sk, skill)

\* an absorb_skill that compares with the last skill only
absorb_skill_last_only(sk, skill) ==
    IF sk = <<>> \/ sk[Len(sk)] # skill THEN Append(sk, skill) ELSE sk

absorb_skill(sk, skill) ==
    IF skill \notin Names(sk) THEN Append(sk, skill) ELSE sk

\* an enemy health that grows by 1 per layer
EnemyMaxHealthNoDouble(player_layer) ==
    EnemyBaseHealth + Max(0, (0 - player_layer) - 10)

\* an enemy health that starts to grow below layer -20
EnemyMaxHealthBelow20(player_layer) ==
    EnemyBaseHealth + Max(0, (0 - player_layer) - 20) * 2

\* Enemy.__init__: max_health from the player's layer
EnemyMaxHealth(player_layer) ==
    EnemyBaseHealth + Max(0, (0 - player_layer) - 10) * 2

----------------------------------------------------------------------------
(* Player *)

\* an offer of every enemy skill, known or not
unique_skills_unfiltered(esk, sk) == esk

\* unique_skills of choose_skill_to_absorb
unique_skills(esk, sk) == SelectSeq(esk, LAMBDA s : s \notin Names(sk))

\* pairs of choose_fusion: the loops over i < j, in loop order
RECURSIVE PairsFrom(_, _, _, _)
PairsFrom(sk, t, i, j) ==
    IF i > Len(sk) THEN <<>>
    ELSE IF j > Len(sk) THEN PairsFrom(sk, t, i + 1, i + 2)
    ELSE LET fusion == fuse(t, sk[i], sk[j])
             rest == PairsFrom(sk, t, i, j + 1)
         IN  IF fusion # None THEN <<<<i, j, fusion>>>> \o rest ELSE rest

\* a search that stops at the first pair found
FusionPairsFirstOnly(sk, t) ==
    IF PairsFrom(sk, t, 1, 2) = <<>> THEN <<>> ELSE <<Head(PairsFrom(sk, t, 1, 2))>>

FusionPairs(sk, t) == PairsFrom(sk, t, 1, 2)

\* the two deletions with the lower index first
RemoveFusedLowFirst(sk, i, j) == DelAt(DelAt(sk, Min(i, j)), Max(i, j))

\* for index in sorted([i, j], reverse=True): del self.skills[index]
RemoveFused(sk, i, j) == DelAt(DelAt(sk, Max(i, j)), Min(i, j))

\* a fusion that removes the two skills and inserts nothing
ApplyFusionNoInsert(sk, p) == RemoveFused(sk, p[1], p[2])

\* the body of a valid fusion selection
ApplyFusion(sk, p) == absorb_skill(RemoveFused(sk, p[1], p[2]), p[3])

----------------------------------------------------------------------------
(* The session: play_game *)

Init ==
    /\ pc = "menu"
    /\ skills \in sample(2)
    /\ health = StartMaxHealth
    /\ max_health = StartMaxHealth
    /\ layer = StartLayer
    /\ e_skills = <<>>
    /\ e_health = 0
    /\ e_max_health = 0
    /\ table = DefaultTable
    /\ out = "welcome"
    /\ battle_result = "none"
    /\ ending = "none"

\* menu choice "1": enemy = Enemy(player.layer), then battle starts
Explore ==
    /\ pc = "menu"
    /\ \E n \in 1..2 : \E sk \in sample(n) :
          /\ e_skills' = sk
          /\ e_max_health' = EnemyMaxHealth(layer)
          /\ e_health' = EnemyMaxHealth(layer)
    /\ pc' = "battle_p"
    /\ out' = "appears"
    /\ UNCHANGED <<playerVars, table, battle_result, ending>>

\* a battle without the return at the enemy's death
AfterPlayerHitNoReturn(eh) == "battle_e"

\* where battle goes after the player's hit
AfterPlayerHit(eh) == IF ~is_alive(eh) THEN "won" ELSE "battle_e"

\* the loop test of battle and the player's attack
PlayerAttack ==
    /\ pc = "battle_p"
    /\ IF is_alive(health) /\ is_alive(e_health)
       THEN \E r \in Rolls :
              LET player_damage == attack_power(skills, r)
                  eh == take_damage(e_health, player_damage)
              IN  /\ e_health' = eh
                  /\ out' = "hit_enemy"
                  /\ pc' = AfterPlayerHit(eh)
                  /\ battle_result' = IF pc' = "won" THEN "True" ELSE battle_result
                  /\ UNCHANGED ending
       ELSE /\ battle_result' = "False"
            /\ pc' = "done"
            /\ ending' = "gameover"
            /\ out' = "game_over"
            /\ UNCHANGED e_health
    /\ UNCHANGED <<playerVars, e_skills, e_max_health, table>>

\* the enemy retaliates
EnemyAttack ==
    /\ pc = "battle_e"
    /\ \E r \in Rolls :
          LET enemy_damage == attack_power(e_skills, r)
              h == take_damage(health, enemy_damage)
          IN  /\ health' = h
              /\ IF ~is_alive(h)
                 THEN /\ battle_result' = "False"
                      /\ pc' = "done"
                      /\ ending' = "gameover"
                      /\ out' = "game_over"
                 ELSE /\ pc' = "battle_p"
                      /\ out' = "hit_player"
                      /\ UNCHANGED <<battle_result, ending>>
    /\ UNCHANGED <<skills, max_health, layer, enemyVars, table>>

\* random.random() < 0.2, as long as the model lets max_health grow
EvolveRolls ==
    IF max_health < StartMaxHealth + EvolveGain * MaxEvolve THEN BOOLEAN ELSE {FALSE}

\* an evolve that does not heal
evolve_no_heal(mh, h) == <<mh + EvolveGain, h>>

\* Player.evolve: the new <<max_health, health>>
evolve(mh, h) == <<mh + EvolveGain, mh + EvolveGain>>

\* player.absorb_skill(skill), the evolution roll and player.evolve(); the
\* enemy and battle's value are not read again
FinishAbsorb(skill, how) ==
    /\ skills' = absorb_skill(skills, skill)
    /\ \E roll \in EvolveRolls :
          IF roll
          THEN /\ max_health' = evolve(max_health, health)[1]
               /\ health' = evolve(max_health, health)[2]
               /\ out' = "evolved"
          ELSE /\ out' = how
               /\ UNCHANGED <<health, max_health>>
    /\ pc' = "menu"
    /\ e_skills' = <<>>
    /\ e_health' = 0
    /\ e_max_health' = 0
    /\ battle_result' = "none"
    /\ UNCHANGED <<layer, table, ending>>

\* battle returned True: choose_skill_to_absorb up to its first prompt
BeginAbsorb ==
    /\ pc = "won"
    /\ IF unique_skills(e_skills, skills) = <<>>
       THEN \E s \in Names(e_skills) : FinishAbsorb(s, "learn_known")
       ELSE /\ pc' = "absorb"
            /\ out' = "which_skill"
            /\ UNCHANGED <<playerVars, enemyVars, table, battle_result, ending>>

\* one answer to "Enter the number of the skill: "
AbsorbChoice(c) ==
    /\ pc = "absorb"
    /\ LET unique == unique_skills(e_skills, skills)
       IN  IF ValidChoice(c, Len(unique))
           THEN FinishAbsorb(PyIndex(unique, int(c) - 1), "learn")
           ELSE /\ out' = "invalid_selection"
                /\ UNCHANGED <<pc, playerVars, enemyVars, table, battle_result, ending>>

\* menu choice "2": choose_fusion up to its first prompt
Fuse ==
    /\ pc = "menu"
    /\ IF Len(skills) < 2
       THEN /\ out' = "need_two"
            /\ UNCHANGED pc
       ELSE IF FusionPairs(skills, table) = <<>>
       THEN /\ out' = "no_fusion"
            /\ UNCHANGED pc
       ELSE /\ out' = "possible_fusions"
            /\ pc' = "fusion"
    /\ UNCHANGED <<playerVars, enemyVars, table, battle_result, ending>>

\* one answer to "Enter the number of the fusion to perform"
FusionChoice(c) ==
    /\ pc = "fusion"
    /\ LET pairs == FusionPairs(skills, table)
       IN  IF c = ""
           THEN /\ out' = "cancelled"
                /\ pc' = "menu"
                /\ UNCHANGED skills
           ELSE IF ValidChoice(c, Len(pairs))
           THEN /\ skills' = ApplyFusion(skills, PyIndex(pairs, int(c) - 1))
                /\ out' = "fused"
                /\ pc' = "menu"
           ELSE /\ out' = "invalid_choice"
                /\ UNCHANGED <<pc, skills>>
    /\ UNCHANGED <<health, max_health, layer, enemyVars, table, battle_result, ending>>

\* a surface test against layer 0
AtSurfaceZero(l) == l = 0

\* if player.layer == -1
AtSurface(l) == l = SurfaceLayer

\* a climb of two layers
next_layer_two(l) == l + 2

\* player.layer += 1
next_layer(l) == l + 1

\* a heal without the min(player.max_health, ...)
ascend_heal_uncapped(mh, h) == h + AscendHeal

\* min(player.max_health, player.health + 3)
ascend_heal(mh, h) == Min(mh, h + AscendHeal)

\* menu choice "3"
Ascend ==
    /\ pc = "menu"
    /\ IF AtSurface(layer)
       THEN /\ pc' = "done"
            /\ ending' = "surface"
            /\ out' = "surface"
            /\ UNCHANGED <<layer, health>>
       ELSE /\ layer' = next_layer(layer)
            /\ health' = ascend_heal(max_health, health)
            /\ out' = "climb"
            /\ UNCHANGED <<pc, ending>>
    /\ UNCHANGED <<skills, max_health, enemyVars, table, battle_result>>

\* menu choice "4"
Quit ==
    /\ pc = "menu"
    /\ pc' = "done"
    /\ ending' = "quit"
    /\ out' = "thanks"
    /\ UNCHANGED <<playerVars, enemyVars, table, battle_result>>

\* any other menu line
InvalidMenu ==
    /\ pc = "menu"
    /\ out' = "invalid_menu"
    /\ UNCHANGED <<pc, playerVars, enemyVars, table, battle_result, ending>>

Next ==
    \/ Explore
    \/ PlayerAttack
    \/ EnemyAttack
    \/ BeginAbsorb
    \/ \E c \in PromptInputs : AbsorbChoice(c)
    \/ Fuse
    \/ \E c \in PromptInputs : FusionChoice(c)
    \/ Ascend
    \/ Quit
    \/ InvalidMenu

Spec == Init /\ [][Next]_vars

----------------------------------------------------------------------------
(* One battle on its own: any live player against any live enemy.  The     *)
(* loop of battle reads no input, so it keeps running until it returns.    *)

\* layers below the start that the battles of SpecBattle may be fought at
DeepLayers == 2

InitBattle ==
    /\ pc = "battle_p"
    /\ skills \in UNION {sample(n) : n \in 1..PoolSize}
    /\ max_health = StartMaxHealth
    /\ health \in 1..StartMaxHealth
    /\ layer \in (StartLayer - DeepLayers)..SurfaceLayer
    /\ e_skills \in sample(1) \cup sample(2)
    /\ e_max_health = EnemyMaxHealth(layer)
    /\ e_health = EnemyMaxHealth(layer)
    /\ table = DefaultTable
    /\ out = "appears"
    /\ battle_result = "none"
    /\ ending = "none"

BattleNext == PlayerAttack \/ EnemyAttack

SpecBattle == InitBattle /\ [][BattleNext]_vars /\ WF_vars(BattleNext)

----------------------------------------------------------------------------
(* Registration on its own: add applied to any two names and any result    *)

FusionResults == {"Acidic Web", "Conductive Spray", "Flaming Cyclone"}

AllNames == Names(BASIC_SKILLS) \cup FusionResults

RegNames == Pool \cup {"Acidic Web"}

RegResults == {"Acidic Web", "Conductive Spray"}

InitReg ==
    /\ pc = "register"
    /\ table \in {EmptyTable, DefaultTable}
    /\ skills = <<>>
    /\ health = 0
    /\ max_health = 0
    /\ layer = StartLayer
    /\ e_skills = <<>>
    /\ e_health = 0
    /\ e_max_health = 0
    /\ out = "none"
    /\ battle_result = "none"
    /\ ending = "none"

Register(skill_a, skill_b, result) ==
    /\ pc = "register"
    /\ table' = add(table, skill_a, skill_b, result)
    /\ out' = "registered"
    /\ UNCHANGED <<pc, playerVars, enemyVars, battle_result, ending>>

RegNext == \E a \in RegNames, b \in RegNames, r \in RegResults : Register(a, b, r)

SpecReg == InitReg /\ [][RegNext]_vars

----------------------------------------------------------------------------
(* Enemy.__init__ on its own: an enemy spawned for any layer               *)

\* the deepest layer an enemy is spawned for is -SpawnDepth
SpawnDepth == 32

InitSpawn ==
    /\ pc = "menu"
    /\ skills \in sample(2)
    /\ health = StartMaxHealth
    /\ max_health = StartMaxHealth
    /\ layer \in (0 - SpawnDepth)..SurfaceLayer
    /\ e_skills = <<>>
    /\ e_health = 0
    /\ e_max_health = 0
    /\ table = DefaultTable
    /\ out = "welcome"
    /\ battle_result = "none"
    /\ ending = "none"

SpawnNext == Explore

SpecSpawn == InitSpawn /\ [][SpawnNext]_vars

----------------------------------------------------------------------------
(* choose_fusion on its own: a player with any list of distinct skills     *)

\* the longest skills list a fusion is asked for
FuseLen == 4

FuseNames ==
    {"Thread Shot", "Acid Glob", "Water Jet", "Electric Current", "Stone Shard"}

InitFuse ==
    /\ pc = "menu"
    /\ skills \in UNION {{s \in [1..n -> FuseNames] :
                            \A x, y \in 1..n : x # y => s[x] # s[y]} : n \in 0..FuseLen}
    /\ health = StartMaxHealth
    /\ max_health = StartMaxHealth
    /\ layer = StartLayer
    /\ e_skills = <<>>
    /\ e_health = 0
    /\ e_max_health = 0
    /\ table = DefaultTable
    /\ out = "welcome"
    /\ battle_result = "none"
    /\ ending = "none"

FuseNext == Fuse \/ \E c \in PromptInputs : FusionChoice(c)

SpecFuse == InitFuse /\ [][FuseNext]_vars

----------------------------------------------------------------------------
(* Claims *)

\* C1: every creature has 0 <= health <= max_health in every reachable state
\* of the session (battle damage, evolve, the heal on ascend); take_damage
\* with a non-negative amount stops at 0 and leaves a health of 0 at 0.
C1_HealthBounds ==
    /\ 0 <= health /\ health <= max_health
    /\ 0 <= e_health /\ e_health <= e_max_health
    /\ \A amount \in 0..(max_health + MaxRoll) :
          /\ take_damage(health, amount)
                = (IF amount >= health THEN 0 ELSE health - amount)
          /\ take_damage(e_health, amount)
                = (IF amount >= e_health THEN 0 ELSE e_health - amount)
          /\ take_damage(0, amount) = 0

\* a two-skill player (even damage) has brought a 5-health enemy to 0, after
\* being hit itself: the last hit was clamped
C1_Witness ==
    /\ pc = "won"
    /\ e_health = 0
    /\ e_max_health = EnemyBaseHealth
    /\ Len(skills) = 2
    /\ health < max_health

\* C2: a battle between a live player and a live enemy, each knowing at least
\* one skill, ends after finitely many attacks for every choice of the random
\* factors, and it ends with exactly one of the two outcomes: True (the
\* session goes on to the absorb) or False (the session ends), never both.
C2_BattleTerminates ==
    /\ (pc \in {"battle_p", "battle_e"}) ~> (battle_result \in {"True", "False"})
    /\ [](pc \in {"battle_p", "battle_e"} => battle_result = "none")
    /\ [](battle_result = "True" => pc = "won" /\ ending = "none")
    /\ [](battle_result = "False" => pc = "done" /\ ending = "gameover")
    /\ [](pc \in {"won", "done"} => battle_result \in {"True", "False"})

\* a battle of several turns has ended in defeat
C2_Witness ==
    /\ battle_result = "False"
    /\ health = 0
    /\ e_health > 0
    /\ e_health < e_max_health

\* C3: the player's skills never hold the same name twice, and neither do a
\* spawned enemy's.
NoDuplicates(sk) == \A x, y \in 1..Len(sk) : x # y => sk[x] # sk[y]

C3_NoDuplicateSkills == NoDuplicates(skills) /\ NoDuplicates(e_skills)

\* the player has just absorbed a skill it already knew
C3_Witness == out = "learn_known" /\ pc = "menu" /\ Len(skills) >= 2

\* C4: in a battle the attacks alternate, the player first; when the player's
\* attack brings the enemy to 0 the battle returns at once: the enemy does not
\* attack again and the player's health is not touched.
C4_Alternation ==
    [][ /\ (out = "appears" /\ out' # out) => out' = "hit_enemy"
        /\ (out = "hit_enemy" /\ pc' # pc) => out' # "hit_enemy"
        /\ (out = "hit_player" /\ pc' # pc) => out' = "hit_enemy"
        /\ out' = "hit_enemy" /\ pc' # pc => out \in {"appears", "hit_player"}
        /\ out' \in {"hit_player", "game_over"} /\ pc' # pc
              => out = "hit_enemy" /\ e_health > 0
        /\ (pc \in {"battle_p", "battle_e"} /\ e_health > 0 /\ e_health' = 0)
              => pc' = "won" /\ battle_result' = "True" /\ health' = health
        /\ (pc \in {"battle_p", "battle_e"} /\ e_health = 0)
              => health' = health /\ pc' \notin {"battle_p", "battle_e"}
        /\ (pc \in {"won", "absorb"}) => health' >= health /\ e_health' = 0
      ]_vars

\* the player has won a battle in which the enemy had hit back
C4_Witness ==
    /\ pc = "won"
    /\ out = "hit_enemy"
    /\ e_health = 0
    /\ health > 0
    /\ health < max_health

\* C5: selecting the offered candidate (i, j, result) removes exactly the
\* skills at positions i and j, keeps the others in their order, and leaves
\* result known (appended unless it was known); from exactly Thread Shot and
\* Acid Glob the player ends with exactly Acidic Web.
KeepOthers(sk, i, j) ==
    [x \in 1..(Len(sk) - 2) |->
        sk[IF x < i THEN x ELSE IF x + 1 < j THEN x + 1 ELSE x + 2]]

NamesEntry(c, n) == \E k \in 1..n : c = str(k)

C6_InvalidSelection ==
    [][ /\ pc = "absorb" =>
             \A c \in PromptInputs :
                (~NamesEntry(c, Len(unique_skills(e_skills, skills)))
                   /\ AbsorbChoice(c))
                  => /\ out' = "invalid_selection"
                     /\ pc' = pc
                     /\ UNCHANGED <<playerVars, table>>
        /\ pc = "fusion" =>
             \A c \in PromptInputs :
                (c # "" /\ ~NamesEntry(c, Len(FusionPairs(skills, table)))
                   /\ FusionChoice(c))
                  => /\ out' = "invalid_choice"
                     /\ pc' = pc
                     /\ UNCHANGED <<playerVars, table>>
        /\ (pc = "fusion" /\ skills' # skills)
              => /\ out' = "fused"
                 /\ \E k \in 1..Len(FusionPairs(skills, table)) :
                       FusionPairs(skills, table)[k][3] \in Names(skills')
      ]_vars

\* an invalid line has just been reported at the fusion prompt
C6_Witness == pc = "fusion" /\ out = "invalid_choice"

\* C7: registering a rule for a skill paired with itself fails with
\* InvalidFusionError and leaves the table as it was.
C7_SelfFusionRejected ==
    [][ \A a \in RegNames : \A r \in RegResults :
          Register(a, a, r) => (out' = "InvalidFusionError" /\ table' = table)
      ]_vars

\* C8: the lookup is commutative for every table registrations can build,
\* and a pair with no rule gives None.
C8_FuseCommutes ==
    \A a \in AllNames : \A b \in AllNames :
        /\ fuse(table, a, b) = fuse(table, b, a)
        /\ (\A k \in DOMAIN table : k # {a, b}) => fuse(table, a, b) = None
        /\ (\E k \in DOMAIN table : k = {a, b}) => fuse(table, a, b) = table[{a, b}]

\* a table that holds the default rule for Thread Shot and Acid Glob and
\* one more registered rule
C8_Witness ==
    /\ out = "registered"
    /\ fuse(table, "Acid Glob", "Thread Shot") = "Acidic Web"
    /\ fuse(table, "Acidic Web", "Thread Shot") = "Conductive Spray"

\* C9: absorb_skill is idempotent on every reachable skills list, the
\* player's and the enemy's: a second absorb of the same name changes
\* nothing, and absorbing a known name changes nothing.
C9_AbsorbIdempotent ==
    \A sk \in {skills, e_skills} : \A s \in AllNames :
        /\ absorb_skill(absorb_skill(sk, s), s) = absorb_skill(sk, s)
        /\ s \in Names(sk) => absorb_skill(sk, s) = sk
        /\ s \notin Names(sk) => absorb_skill(sk, s) = sk \o <<s>>

\* the player has absorbed a new skill chosen at the prompt
C9_Witness == out = "learn" /\ pc = "menu" /\ Len(skills) = 3

\* C10: ascend at layer -1 ends the session with the surface reached and
\* leaves the layer at -1 and the health as it was; nothing changes after.
C10_AscendAtSurface ==
    /\ [][ /\ (Ascend /\ layer = SurfaceLayer)
                => /\ pc' = "done"
                   /\ ending' = "surface"
                   /\ UNCHANGED <<playerVars, table>>
           /\ pc = "done" => UNCHANGED <<playerVars, ending>>
         ]_vars
    /\ [](ending = "surface" => pc = "done" /\ layer = SurfaceLayer)

\* the session has ended at the surface
C10_Witness == ending = "surface" /\ layer = SurfaceLayer /\ pc = "done"

\* C11: ascend at a layer other than -1 raises the layer by exactly 1 and
\* sets health to min(max_health, health + 3); max_health and the skills
\* stay as they were.
C11_AscendStep ==
    [][ (pc = "menu" /\ layer # SurfaceLayer /\ Ascend)
          => /\ layer' = layer + 1
             /\ health' = (IF health + 3 > max_health THEN max_health ELSE health + 3)
             /\ UNCHANGED <<max_health, skills, table>>
             /\ pc' = "menu"
             /\ ending' = "none"
      ]_vars

\* a hurt player has climbed and is still below its max_health
C11_Witness ==
    /\ out = "climb"
    /\ layer > StartLayer
    /\ health > AscendHeal
    /\ health < max_health

\* C12: an enemy spawned for layer d has max_health 5 + max(0, -d - 10) * 2
\* and starts at full health; layer -10 gives 5 and layer -31 gives 47.
C12_EnemyHealthFormula ==
    pc = "battle_p" =>
        /\ e_max_health = (IF layer < -10 THEN 5 + 2 * ((0 - layer) - 10) ELSE 5)
        /\ e_health = e_max_health
        /\ (layer = -10 => e_max_health = 5)
        /\ (layer = -31 => e_max_health = 47)

\* an enemy has been spawned for layer -31
C12_Witness == pc = "battle_p" /\ layer = -31 /\ e_max_health = 47 /\ e_health = 47

\* C13 as stated: the enemy's max_health is 5 for every layer from -20 up
\* and exceeds 5 only below -20.
C13_ScalesBelow20 ==
    pc = "battle_p" =>
        /\ (layer >= -20 => e_max_health = 5)
        /\ (e_max_health > 5 => layer < -20)

\* C13 amended: the enemy's max_health is 5 for every layer from -10 up
\* (so for all of -10 .. -1) and exceeds 5 exactly for the layers below -10.
C13_ScalesBelow10 ==
    pc = "battle_p" =>
        /\ (layer >= -10 => e_max_health = 5)
        /\ (layer < -10 => e_max_health > 5)

\* an enemy spawned for layer -11 has more than the minimum health
C13_Witness == pc = "battle_p" /\ layer = -11 /\ e_max_health = 7

\* C14: after a victory the skills offered are the enemy's skills whose name
\* the player does not know, in the enemy's order; when the player knows them
\* all, one of the enemy's skills is taken without a prompt and nothing is
\* added.  An explore adds at most one skill, in the step that ends it.
RECURSIVE NotKnown(_, _)
NotKnown(esk, sk) ==
    IF esk = <<>> THEN <<>>
    ELSE (IF \E k \in 1..Len(sk) : sk[k] = Head(esk) THEN <<>> ELSE <<Head(esk)>>)
            \o NotKnown(Tail(esk), sk)

HasRule(i, j) == {skills[i], skills[j]} \in DOMAIN table

C16_Candidates ==
    /\ [] LET pairs == FusionPairs(skills, table)
          IN  /\ \A k \in 1..Len(pairs) :
                    /\ pairs[k][1] \in 1..Len(skills)
                    /\ pairs[k][2] \in 1..Len(skills)
                    /\ pairs[k][1] < pairs[k][2]
                    /\ HasRule(pairs[k][1], pairs[k][2])
                    /\ pairs[k][3] = table[{skills[pairs[k][1]], skills[pairs[k][2]]}]
              /\ \A i \in 1..Len(skills) : \A j \in (i + 1)..Len(skills) :
                    HasRule(i, j) =>
                       Cardinality({k \in 1..Len(pairs) :
                                      pairs[k][1] = i /\ pairs[k][2] = j}) = 1
              /\ \A k \in 1..Len(pairs) : \A l \in (k + 1)..Len(pairs) :
                    \/ pairs[k][1] < pairs[l][1]
                    \/ (pairs[k][1] = pairs[l][1] /\ pairs[k][2] < pairs[l][2])
    /\ [][ (pc = "menu" /\ Fuse
              /\ ~(\E i \in 1..Len(skills) : \E j \in (i + 1)..Len(skills) : HasRule(i, j)))
             => /\ pc' = "menu"
                /\ out' \in {"need_two", "no_fusion"}
                /\ UNCHANGED <<playerVars, table>>
         ]_vars

\* a player with two fusable pairs is offered both
C16_Witness == pc = "fusion" /\ Len(FusionPairs(skills, table)) = 2

\* C17: the player always knows at least one skill, a spawned enemy knows
\* one or two, and so every attack of a battle deals at least 1 damage.
C17_NeverSkillless ==
    /\ Len(skills) >= 1
    /\ e_max_health > 0 => Len(e_skills) \in {1, 2}
    /\ \A r \in Rolls :
          /\ attack_power(skills, r) >= 1
          /\ pc \in {"battle_p", "battle_e"} => attack_power(e_skills, r) >= 1

\* a hurt player has fused down to the single skill Acidic Web
C17_Witness ==
    /\ out = "fused"
    /\ Len(skills) = 1
    /\ health < max_health

\* C18: a defeat ends the session: no step follows it; and whenever the
\* session offers an action the player's health is above 0.
C18_DefeatIsTerminal ==
    /\ pc = "menu" => health > 0
    /\ health = 0 => pc = "done" /\ ending = "gameover"
    /\ ending = "gameover" => pc = "done" /\ health = 0 /\ battle_result = "False"
    /\ pc = "done" => ~ENABLED Next

\* the session has ended with the player's defeat
C18_Witness == ending = "gameover" /\ pc = "done" /\ health = 0

\* C19: the layer stays within -10 .. -1 and never decreases; only ascend
\* changes it, by 1; the surface ending is reached at layer -1, nine climbs
\* above the start.
C19_LayerRange ==
    /\ [](layer \in StartLayer..SurfaceLayer)
    /\ [](ending = "surface" => layer = StartLayer + 9)
    /\ [][ layer' # layer => (pc = "menu" /\ Ascend /\ layer' = layer + 1) ]_vars

\* the session has ended at the surface, nine layers above the start
C19_Witness == ending = "surface" /\ layer = StartLayer + 9 /\ out = "surface"

\* C20: when battle returns True the enemy is at 0 and the player above 0;
\* when it returns False the player is at 0 and the enemy above 0; the two
\* are never both at 0.
C20_OutcomeMatchesHealth ==
    /\ battle_result = "True" => e_health = 0 /\ health > 0
    /\ battle_result = "False" => health = 0 /\ e_health > 0
    /\ ~(health = 0 /\ e_health = 0)

\* a battle has been won by a player the enemy had hurt
C20_Witness ==
    /\ battle_result = "True"
    /\ e_health = 0
    /\ health > 0
    /\ health < StartMaxHealth
    /\ layer < StartLayer

====
